---- MODULE Spec2Model ----
(***************************************************************************)
(* Model of lib/dialects/abstract/query-generator/index.js (QueryGenerator)*)
(* of sequelize: quote, quoteIdentifiers, quoteTable, escape and           *)
(* jsonPathExtractionQuery.                                                *)
(*                                                                         *)
(* JavaScript strings are sequences of one-character strings, so that      *)
(* split, join, toUpperCase and the regular-expression replace are         *)
(* computed as the code computes them.  A thrown Error is a result with    *)
(* ok = FALSE and the kind of the error.                                   *)
(***************************************************************************)
EXTENDS Integers, Sequences, FiniteSets, TLC

\* ------------------------------------------------------------------ bounds
\* longest Path (array) handed to quote
MaxPathLen == 3

\* ------------------------------------------------------- JavaScript strings
LowerChars == <<"a","b","c","d","e","f","g","h","i","j","k","l","m",
                "n","o","p","q","r","s","t","u","v","w","x","y","z">>
UpperChars == <<"A","B","C","D","E","F","G","H","I","J","K","L","M",
                "N","O","P","Q","R","S","T","U","V","W","X","Y","Z">>
Digits == {"0","1","2","3","4","5","6","7","8","9"}

\* the upper-case letter of each lower-case letter
UpperOf ==
  [c \in {LowerChars[i] : i \in 1..Len(LowerChars)} |->
     UpperChars[CHOOSE i \in 1..Len(LowerChars) : LowerChars[i] = c]]
\* the lower-case letter of each upper-case letter
LowerOf ==
  [c \in {UpperChars[i] : i \in 1..Len(UpperChars)} |->
     LowerChars[CHOOSE i \in 1..Len(UpperChars) : UpperChars[i] = c]]

\* String.prototype.toUpperCase, one character
UpperChar(c) == IF c \in DOMAIN UpperOf THEN UpperOf[c] ELSE c

\* String.prototype.toUpperCase
toUpperCase(s) == [i \in 1..Len(s) |-> UpperChar(s[i])]

\* String.prototype.indexOf(ch), 1-based; 0 stands for JavaScript's -1
indexOf(s, c) ==
  IF \E i \in 1..Len(s) : s[i] = c
  THEN CHOOSE i \in 1..Len(s) : s[i] = c /\ \A j \in 1..(i-1) : s[j] # c
  ELSE 0

\* String.prototype.split(ch): always at least one piece
RECURSIVE split(_, _)
split(s, c) ==
  LET i == indexOf(s, c) IN
  IF i = 0 THEN <<s>>
  ELSE <<SubSeq(s, 1, i-1)>> \o split(SubSeq(s, i+1, Len(s)), c)

\* Array.prototype.join(sep)
RECURSIVE join(_, _)
join(parts, sep) ==
  IF Len(parts) = 0 THEN <<>>
  ELSE IF Len(parts) = 1 THEN parts[1]
  ELSE parts[1] \o sep \o join(Tail(parts), sep)

\* Array.prototype.slice(from) with a 0-based from
slice(arr, from) == SubSeq(arr, from + 1, Len(arr))

\* the characters used as punctuation
DOT == <<".">>
DQ  == <<"\"">>
\* the back-quote character (a TLA+ string cannot hold it, so it has a name)
BT  == <<"backquote">>
SQ  == <<"'">>


\* -------------------------------------------------------------- string pool
s_title == <<"t","i","t","l","e">>
s_name  == <<"n","a","m","e">>
s_nm    == <<"n","m">>
s_data  == <<"d","a","t","a">>
s_doc   == <<"d","o","c">>
s_body  == <<"b","o","d","y">>
s_txt   == <<"t","x","t">>
s_id    == <<"i","d">>
s_posts == <<"p","o","s","t","s">>
s_zz    == <<"z","z">>
s_x     == <<"x">>
s_json  == <<"d","a","t","a",".","a",".","0">>
s_abc   == <<"a",".","b",".","c">>
s_now   == <<"N","O","W","(",")">>
s_arrow == <<"-",">">>

\* ------------------------------------------------- construction-time state
VARIABLES
  dialect,          \* this.dialect, set by the constructor
  quoteIdentifiersOpt, \* this.options.quoteIdentifiers
  typeValidation,   \* this.typeValidation
  op,               \* the method called last
  original,         \* the argument as the caller passed it
  collection,       \* the caller's argument after the call (quote rewrites arrays in place)
  parent,           \* quote's parent argument
  connector,        \* quote's connector argument
  extra,            \* the remaining arguments of the call
  result,           \* what the call returned or threw
  prevCollection,   \* the caller's array after the call before this one
  prevResult,       \* what the call before this one returned
  validated,        \* the values field.type.validate was invoked on, in order
  failedAt          \* the index of the forEach iteration of quote that threw, or -1

vars == <<dialect, quoteIdentifiersOpt, typeValidation, op, original, collection,
          parent, connector, extra, result, prevCollection, prevResult, validated,
          failedAt>>

Dialects == {"mysql", "sqlite", "postgres", "mssql"}

\* ------------------------------------------------------------------ results
Ok(sql) == [ok |-> TRUE, sql |-> sql, err |-> "none"]
Throw(kind) == [ok |-> FALSE, sql |-> <<>>, err |-> kind]
NoResult == [ok |-> FALSE, sql |-> <<>>, err |-> "notcalled"]

\* ----------------------------------------- helpers/quote and sql-string
\* the opening and closing identifier quote of the dialect
QuoteOpen(d)  == IF d = "postgres" THEN DQ ELSE IF d = "mssql" THEN <<"[">> ELSE BT
QuoteClose(d) == IF d = "postgres" THEN DQ ELSE IF d = "mssql" THEN <<"]">> ELSE BT

\* QuoteHelper.quoteIdentifier(dialect, identifier, {force, quoteIdentifiers})
QuoteHelper_quoteIdentifier(d, identifier, force, enabled) ==
  IF ~force /\ ~enabled THEN identifier
  ELSE QuoteOpen(d) \o identifier \o QuoteClose(d)

\* QuoteHelper.isIdentifierQuoted(identifier)
QuoteHelper_isIdentifierQuoted(identifier) ==
  /\ Len(identifier) >= 2
  /\ <<identifier[1]>> \in {DQ, BT, SQ}
  /\ identifier[Len(identifier)] = identifier[1]

\* SqlString.escape of a string: single quotes around it, inner quotes doubled
RECURSIVE DoubleQuotes(_)
DoubleQuotes(s) ==
  IF s = <<>> THEN <<>>
  ELSE (IF <<s[1]>> = SQ THEN SQ \o SQ ELSE <<s[1]>>) \o DoubleQuotes(Tail(s))

SqlString_escapeString(s) == SQ \o DoubleQuotes(s) \o SQ

\* ------------------------------------------------------- quoteIdentifier(s)
\* QueryGenerator.quoteIdentifier(identifier, force)
quoteIdentifier(identifier) ==
  QuoteHelper_quoteIdentifier(dialect, identifier, FALSE, quoteIdentifiersOpt)

isIdentifierQuoted(identifier) == QuoteHelper_isIdentifierQuoted(identifier)

\* faulty variant: the head is cut at the first dot and the tail re-joined
quoteIdentifiers_firstDot(identifiers) ==
  IF indexOf(identifiers, ".") # 0
  THEN LET parts == split(identifiers, ".")
           head  == parts[1]
           tail  == join(slice(parts, 1), DOT)
       IN quoteIdentifier(head) \o DOT \o quoteIdentifier(tail)
  ELSE quoteIdentifier(identifiers)

\* QueryGenerator.quoteIdentifiers(identifiers)
quoteIdentifiers(identifiers) ==
  IF indexOf(identifiers, ".") # 0
  THEN LET parts == split(identifiers, ".")
           head  == join(SubSeq(parts, 1, Len(parts) - 1), DOT)
           tail  == parts[Len(parts)]
       IN quoteIdentifier(head) \o DOT \o quoteIdentifier(tail)
  ELSE quoteIdentifier(identifiers)


\* ---------------------------------------------------------------- escape
\* a JavaScript value handed to escape
Val(k, n, s, items) == [k |-> k, n |-> n, s |-> s, items |-> items]
V_null      == Val("null", 0, <<>>, <<>>)
V_undefined == Val("undefined", 0, <<>>, <<>>)
V_num(n)    == Val("number", n, <<>>, <<>>)
V_str(s)    == Val("string", 0, s, <<>>)
V_bool(b)   == Val("boolean", IF b THEN 1 ELSE 0, <<>>, <<>>)
V_literal(s) == Val("literal", 0, s, <<>>)
V_array(xs) == Val("array", 0, <<>>, xs)

\* JavaScript truthiness of a value
IsTruthy(v) ==
  CASE v.k \in {"null", "undefined"} -> FALSE
    [] v.k = "number"  -> v.n # 0
    [] v.k = "boolean" -> v.n = 1
    [] v.k = "string"  -> v.s # <<>>
    [] OTHER -> TRUE

\* decimal text of a small non-negative number
NumText(n) == IF n < 10 THEN <<ToString(n)>> ELSE <<ToString(n \div 10), ToString(n % 10)>>

\* SqlString.escape(value, timezone, dialect)
RECURSIVE SqlString_escape(_)
SqlString_escape(v) ==
  CASE v.k \in {"null", "undefined"} -> <<"N","U","L","L">>
    [] v.k = "number"  -> NumText(v.n)
    [] v.k = "boolean" -> IF v.n = 1 THEN <<"t","r","u","e">> ELSE <<"f","a","l","s","e">>
    [] v.k = "string"  -> SqlString_escapeString(v.s)
    [] v.k = "array"   ->
         join([i \in 1..Len(v.items) |-> SqlString_escape(v.items[i])], <<",", " ">>)
    [] OTHER -> v.s

\* Utils.SequelizeMethod rendering of a literal: its text, verbatim
handleSequelizeMethod(v) == v.s

\* a field type: whether it defines validate, the kinds validate accepts,
\* whether it defines stringify, and whether type.escape === false
FieldType(hasValidate, accepts, hasStringify, escapeFalse) ==
  [present |-> TRUE, hasValidate |-> hasValidate, accepts |-> accepts,
   hasStringify |-> hasStringify, escapeFalse |-> escapeFalse]
NoFieldType ==
  [present |-> FALSE, hasValidate |-> FALSE, accepts |-> {},
   hasStringify |-> FALSE, escapeFalse |-> FALSE]

\* field.type.validate(value): does it accept the value
type_validate(type, v) == v.k \in type.accepts

\* field.type.stringify(value, ...): the text the type renders
type_stringify(type, v) ==
  CASE v.k = "number"  -> NumText(v.n)
    [] v.k = "boolean" -> IF v.n = 1 THEN <<"1">> ELSE <<"0">>
    [] v.k = "string"  -> v.s
    [] OTHER -> <<"[","]">>

\* the values validate is invoked on, up to and including the first rejected
RECURSIVE ValidateEach(_, _)
ValidateEach(type, xs) ==
  IF xs = <<>> THEN <<>>
  ELSE IF ~type_validate(type, xs[1]) THEN <<xs[1]>>
  ELSE <<xs[1]>> \o ValidateEach(type, Tail(xs))

\* escape, line 339: the value must be truthy for validate to run
escape_valueGuard(v) == IsTruthy(v)

\* QueryGenerator.escape(value, field, options): the text or the error, and
\* the values validate was invoked on
escape(value, type, isList) ==
  IF value.k \in {"null", "undefined"}
  THEN [res |-> Ok(SqlString_escape(value)), validated |-> <<>>]
  ELSE IF value.k = "literal"
  THEN [res |-> Ok(handleSequelizeMethod(value)), validated |-> <<>>]
  ELSE IF ~type.present
  THEN [res |-> Ok(SqlString_escape(value)), validated |-> <<>>]
  ELSE
    LET doValidate == typeValidation /\ type.hasValidate /\ escape_valueGuard(value)
        seen == IF ~doValidate THEN <<>>
                ELSE IF isList /\ value.k = "array" THEN ValidateEach(type, value.items)
                ELSE <<value>>
        rejected == seen # <<>> /\ ~type_validate(type, seen[Len(seen)])
    IN IF rejected THEN [res |-> Throw("ValidationError"), validated |-> seen]
       ELSE IF type.hasStringify
       THEN IF type.escapeFalse
            THEN [res |-> Ok(type_stringify(type, value)), validated |-> seen]
            ELSE [res |-> Ok(SqlString_escape(V_str(type_stringify(type, value)))),
                  validated |-> seen]
       ELSE [res |-> Ok(SqlString_escape(value)), validated |-> seen]

\* ------------------------------------------------ jsonPathExtractionQuery
\* a path argument: a dotted string, an array of segments, or undefined
P_str(s) == [k |-> "string", s |-> s, segs |-> <<>>]
P_arr(segs) == [k |-> "array", s |-> <<>>, segs |-> segs]
P_undefined == [k |-> "undefined", s |-> <<>>, segs |-> <<>>]

\* _.toPath(path)
toPath(path) ==
  CASE path.k = "array" -> path.segs
    [] path.k = "string" -> IF path.s = <<>> THEN <<>> ELSE split(path.s, ".")
    [] OTHER -> <<>>

\* Utils.addTicks(s, tickChar)
Utils_addTicks(s, tick) == tick \o s \o tick

\* the length of the run of digits s starts with
RECURSIVE DigitRun(_)
DigitRun(s) == IF s # <<>> /\ s[1] \in Digits THEN 1 + DigitRun(Tail(s)) ELSE 0

\* faulty variant: the expression consumes the dot that follows the digits
RECURSIVE replaceNumeric_consuming(_)
replaceNumeric_consuming(s) ==
  IF s = <<>> THEN <<>>
  ELSE LET n == DigitRun(Tail(s)) IN
       IF s[1] = "." /\ n > 0 /\ n + 1 = Len(s)
       THEN <<"[">> \o SubSeq(s, 2, n + 1) \o <<"]">>
       ELSE IF s[1] = "." /\ n > 0 /\ s[n + 2] = "."
       THEN <<"[">> \o SubSeq(s, 2, n + 1) \o <<"]">>
            \o replaceNumeric_consuming(SubSeq(s, n + 3, Len(s)))
       ELSE <<s[1]>> \o replaceNumeric_consuming(Tail(s))

\* .replace(/\.(\d+)(?:(?=\.)|$)/g, (_, digit) => `[${digit}]`)
RECURSIVE replaceNumeric(_)
replaceNumeric(s) ==
  IF s = <<>> THEN <<>>
  ELSE LET n == DigitRun(Tail(s)) IN
       IF s[1] = "." /\ n > 0 /\ (n + 1 = Len(s) \/ s[n + 2] = ".")
       THEN <<"[">> \o SubSeq(s, 2, n + 1) \o <<"]">>
            \o replaceNumeric(SubSeq(s, n + 2, Len(s)))
       ELSE <<s[1]>> \o replaceNumeric(Tail(s))

\* QueryGenerator.jsonPathExtractionQuery(column, path)
jsonPathExtractionQuery(column, path) ==
  LET paths == toPath(path)
      quotedColumn == IF isIdentifierQuoted(column) THEN column ELSE quoteIdentifier(column)
  IN CASE dialect = "mysql" ->
            LET ticked  == [i \in 1..Len(paths) |-> Utils_addTicks(paths[i], DQ)]
                pathStr == join(<< <<"$">> >> \o ticked, DOT)
            IN Ok(<<"(">> \o quotedColumn \o <<"-",">",">","'">> \o pathStr \o <<"'",")">>)
       [] dialect = "sqlite" ->
            LET pathStr == escape(V_str(replaceNumeric(join(<< <<"$">> >> \o paths, DOT))),
                                  NoFieldType, FALSE).res.sql
            IN Ok(<<"j","s","o","n","_","e","x","t","r","a","c","t","(">> \o quotedColumn
                  \o <<",", " ">> \o pathStr \o <<")">>)
       [] dialect = "postgres" ->
            LET pathStr == escape(V_str(<<"{">> \o join(paths, <<",">>) \o <<"}">>),
                                  NoFieldType, FALSE).res.sql
            IN Ok(<<"(">> \o quotedColumn \o <<"#",">",">">> \o pathStr \o <<")">>)
       [] OTHER -> Throw("UnsupportedDialect")


\* --------------------------------------------- models and their associations
\* The model classes of the application: A has many B through T; the name of
\* a model is its one letter.
Models == {"A", "B", "T"}
Model_name(m) == <<m>>

\* a quote target or an element of a Path
Elem(k, s, m, a, t, src, items) ==
  [k |-> k, s |-> s, m |-> m, a |-> a, t |-> t, src |-> src, items |-> items]
E_undefined     == Elem("undefined", <<>>, "none", <<>>, "none", "none", <<>>)
E_null          == Elem("null", <<>>, "none", <<>>, "none", "none", <<>>)
E_string(s)     == Elem("string", s, "none", <<>>, "none", "none", <<>>)
E_model(m)      == Elem("model", <<>>, m, <<>>, "none", "none", <<>>)
E_modelAs(m, a) == Elem("modelAs", <<>>, m, a, "none", "none", <<>>)
E_literal(s)    == Elem("literal", s, "none", <<>>, "none", "none", <<>>)
E_modelAttribute(m, f) == Elem("modelAttribute", f, m, <<>>, "none", "none", <<>>)
E_raw(s)        == Elem("raw", s, "none", <<>>, "none", "none", <<>>)
E_object        == Elem("object", <<>>, "none", <<>>, "none", "none", <<>>)
E_array(items)  == Elem("array", <<>>, "none", <<>>, "none", "none", items)
\* new Association(source, target, {as}), with the model it goes through
Association(src, target, as, through) == Elem("association", <<>>, target, as, through, src, <<>>)

\* Model.rawAttributes: attribute name -> {field, type}
Attr(name, field, json) == [name |-> name, field |-> field, json |-> json]
rawAttributes(m) ==
  CASE m = "A" -> { Attr(s_title, s_title, FALSE), Attr(s_name, s_nm, FALSE),
                    Attr(s_nm, s_name, FALSE), Attr(s_data, s_doc, TRUE) }
    [] m = "B" -> { Attr(s_title, s_title, FALSE), Attr(s_body, s_txt, FALSE) }
    [] OTHER   -> { Attr(s_id, s_id, FALSE), Attr(s_data, s_data, FALSE) }

HasAttribute(m, name) == \E x \in rawAttributes(m) : x.name = name
Attribute(m, name) == CHOOSE x \in rawAttributes(m) : x.name = name

\* Model.associations: alias -> association
associations(m) ==
  CASE m = "A" -> { Association("A", "B", s_posts, "T"), Association("A", "B", <<"B">>, "none") }
    [] m = "B" -> { Association("B", "B", s_posts, "none"), Association("B", "T", s_x, "none") }
    [] OTHER   -> {}

HasAssociation(m, name) == \E x \in associations(m) : x.a = name
AssociationNamed(m, name) == CHOOSE x \in associations(m) : x.a = name

\* Model.getAssociationForAlias(target, alias): the edge to target under that alias
getAssociationForAlias(m, target, alias) ==
  IF \E x \in associations(m) : x.m = target /\ alias # <<>> /\ x.a = alias
  THEN CHOOSE x \in associations(m) : x.m = target /\ x.a = alias
  ELSE E_null

\* the 8 direction tokens
validOrderOptions ==
  << <<"A","S","C">>,
     <<"D","E","S","C">>,
     <<"A","S","C"," ","N","U","L","L","S"," ","L","A","S","T">>,
     <<"D","E","S","C"," ","N","U","L","L","S"," ","L","A","S","T">>,
     <<"A","S","C"," ","N","U","L","L","S"," ","F","I","R","S","T">>,
     <<"D","E","S","C"," ","N","U","L","L","S"," ","F","I","R","S","T">>,
     <<"N","U","L","L","S"," ","F","I","R","S","T">>,
     <<"N","U","L","L","S"," ","L","A","S","T">> >>

\* validOrderOptions.indexOf(x), 1-based; 0 stands for -1
orderIndexOf(x) ==
  IF \E i \in 1..Len(validOrderOptions) : validOrderOptions[i] = x
  THEN CHOOSE i \in 1..Len(validOrderOptions) : validOrderOptions[i] = x
  ELSE 0

\* JavaScript truthiness of an element
Truthy(e) == e.k \notin {"undefined", "null"} /\ ~(e.k = "string" /\ e.s = <<>>)

\* previousModel of one iteration: the parent when there is no previous
\* element, the target of the previous element when that is an association
previousModelOf(previous, par) ==
  IF ~Truthy(previous) /\ par # "none" THEN par
  ELSE IF Truthy(previous) /\ previous.k = "association" THEN previous.m
  ELSE "none"

\* previousModel && previousModel.prototype instanceof Model
IsModel(m) == m \in Models

A_item(item) == [err |-> "none", item |-> item]
A_throw(kind) == [err |-> kind, item |-> E_undefined]

\* faulty variant: the lookup by the model's own name comes before the alias
resolveModel_nameFirst(item, previous, previousModel) ==
  IF IsModel(previousModel) /\ item.k \in {"model", "modelAs"}
  THEN LET model == item.m
           as == IF item.k = "modelAs" THEN item.a ELSE <<>>
       IN IF /\ as = <<>> /\ Truthy(previous) /\ previous.k = "association"
             /\ previous.t # "none" /\ previous.t = model
          THEN A_item(Association(previousModel, model, Model_name(model), "none"))
          ELSE LET first == getAssociationForAlias(previousModel, model, Model_name(model))
                   found == IF first.k = "null"
                            THEN getAssociationForAlias(previousModel, model, as)
                            ELSE first
               IN IF found.k = "association" THEN A_item(found) ELSE A_throw("ResolutionError")
  ELSE A_item(item)

\* quote, lines 135-170: a model or {model, as} element becomes an association
resolveModel(item, previous, previousModel) ==
  IF IsModel(previousModel) /\ item.k \in {"model", "modelAs"}
  THEN LET model == item.m
           as == IF item.k = "modelAs" THEN item.a ELSE <<>>
       IN IF /\ as = <<>> /\ Truthy(previous) /\ previous.k = "association"
             /\ previous.t # "none" /\ previous.t = model
          THEN A_item(Association(previousModel, model, Model_name(model), "none"))
          ELSE LET first == getAssociationForAlias(previousModel, model, as)
                   found == IF first.k = "null"
                            THEN getAssociationForAlias(previousModel, model, Model_name(model))
                            ELSE first
               IN IF found.k = "association" THEN A_item(found) ELSE A_throw("ResolutionError")
  ELSE A_item(item)

\* faulty variant: the extraction query is left a string, not wrapped in a literal
rewriteJson_noLiteral(item, previousModel) ==
  LET itemSplit == split(item.s, ".") IN
  IF ~HasAttribute(previousModel, itemSplit[1]) THEN A_throw("TypeError")
  ELSE IF Attribute(previousModel, itemSplit[1]).json
  THEN LET identifier == quoteIdentifiers(Model_name(previousModel) \o DOT
                                          \o Attribute(previousModel, itemSplit[1]).field)
           path == P_arr(slice(itemSplit, 1))
           q == jsonPathExtractionQuery(identifier, path)
       IN IF q.ok THEN A_item(E_string(q.sql)) ELSE A_throw(q.err)
  ELSE A_item(item)

\* quote, line 205: the extraction query becomes a literal (an error of the
\* query generator is thrown on)
jsonLiteral(q) == IF q.ok THEN A_item(E_literal(q.sql)) ELSE A_throw(q.err)

\* quote, lines 187-206: a dotted string over a JSON attribute
rewriteJson(item, previousModel) ==
  LET itemSplit == split(item.s, ".") IN
  IF ~HasAttribute(previousModel, itemSplit[1]) THEN A_throw("TypeError")
  ELSE IF Attribute(previousModel, itemSplit[1]).json
  THEN LET identifier == quoteIdentifiers(Model_name(previousModel) \o DOT
                                          \o Attribute(previousModel, itemSplit[1]).field)
           path == P_arr(slice(itemSplit, 1))
       IN jsonLiteral(jsonPathExtractionQuery(identifier, path))
  ELSE A_item(item)

\* faulty variant: the direction tokens are matched as typed, without toUpperCase
rewriteString_caseSensitive(item, index, previousModel) ==
  LET orderIndex == orderIndexOf(item.s) IN
  IF index > 0 /\ orderIndex # 0
  THEN A_item(E_literal(<<" ">> \o validOrderOptions[orderIndex]))
  ELSE IF IsModel(previousModel)
  THEN IF HasAssociation(previousModel, item.s)
       THEN A_item(AssociationNamed(previousModel, item.s))
       ELSE IF HasAttribute(previousModel, item.s)
               /\ item.s # Attribute(previousModel, item.s).field
       THEN A_item(E_string(Attribute(previousModel, item.s).field))
       ELSE IF indexOf(item.s, ".") # 0
       THEN rewriteJson(item, previousModel)
       ELSE A_item(item)
  ELSE A_item(item)

\* quote, lines 172-208: the rules for a string element
rewriteString(item, index, previousModel) ==
  LET orderIndex == orderIndexOf(toUpperCase(item.s)) IN
  IF index > 0 /\ orderIndex # 0
  THEN A_item(E_literal(<<" ">> \o validOrderOptions[orderIndex]))
  ELSE IF IsModel(previousModel)
  THEN IF HasAssociation(previousModel, item.s)
       THEN A_item(AssociationNamed(previousModel, item.s))
       ELSE IF HasAttribute(previousModel, item.s)
               /\ item.s # Attribute(previousModel, item.s).field
       THEN A_item(E_string(Attribute(previousModel, item.s).field))
       ELSE IF indexOf(item.s, ".") # 0
       THEN rewriteJson(item, previousModel)
       ELSE A_item(item)
  ELSE A_item(item)

\* quote, lines 172-208: the string rules apply to what the model rules left
rewriteResolved(resolved, index, previousModel) ==
  IF resolved.err # "none" THEN resolved
  ELSE IF resolved.item.k = "string"
  THEN rewriteString(resolved.item, index, previousModel)
  ELSE resolved

\* quote, lines 121-211: one iteration of the forEach (index is 0-based)
rewriteItem(item, index, previous, par) ==
  rewriteResolved(resolveModel(item, previous, previousModelOf(previous, par)),
                  index, previousModelOf(previous, par))

RECURSIVE rewriteFrom(_, _, _)

\* quote, line 210: collection[index] = item, unless the iteration threw
storeItem(coll, index, par, r) ==
  IF r.err # "none" THEN [err |-> r.err, coll |-> coll, at |-> index]
  ELSE rewriteFrom([coll EXCEPT ![index + 1] = r.item], index + 1, par)

\* the forEach from index on: the array as rewritten, the error thrown if any,
\* and the index of the iteration that threw (-1 when none did)
rewriteFrom(coll, index, par) ==
  IF index >= Len(coll) THEN [err |-> "none", coll |-> coll, at |-> -1]
  ELSE storeItem(coll, index, par,
                 rewriteItem(coll[index + 1], index,
                             IF index = 0 THEN E_undefined ELSE coll[index], par))


\* the kinds of element the scan stops at: a string, a model attribute, a literal
StopsScan(e) == e.k \in {"string", "modelAttribute", "literal"}

\* quote, lines 219-226: the value of i after the loop (0-based), from i on
RECURSIVE scanFrom(_, _)
scanFrom(coll, i) ==
  IF i < Len(coll) - 1
  THEN IF StopsScan(coll[i + 1]) THEN i ELSE scanFrom(coll, i + 1)
  ELSE i

\* quote, lines 215-225: the sparse array tableNames after the loop stopped at i;
\* a hole joins as the empty string
tableNamesOf(coll, i) ==
  LET set == {j \in 1..i : coll[j].k = "association"}
      last == IF set = {} THEN 0 ELSE CHOOSE j \in set : \A h \in set : h <= j
  IN [j \in 1..last |-> IF coll[j].k = "association" THEN coll[j].a ELSE <<>>]

\* a table argument: a bare name, or a descriptor whose absent fields are empty
Table_name(n) ==
  [k |-> "string", tableName |-> n, schema |-> <<>>, delimiter |-> <<>>,
   as |-> <<>>, name |-> <<>>]
Table_object(tableName, schema, delimiter, as, name) ==
  [k |-> "object", tableName |-> tableName, schema |-> schema, delimiter |-> delimiter,
   as |-> as, name |-> name]

\* an alias argument: undefined, true, a string, or (derived) the descriptor itself
Alias_undefined == [k |-> "undefined", s |-> <<>>]
Alias_true      == [k |-> "true", s |-> <<>>]
Alias_string(s) == [k |-> "string", s |-> s]
Alias_object    == [k |-> "object", s |-> <<>>]

\* this._dialect.supports.schemas
supportsSchemas == dialect \in {"postgres", "mssql"}

\* faulty variant: alias === true falls back on the table name before the name
derivedAlias_tableName(param, alias) ==
  IF alias.k # "true" THEN alias
  ELSE IF param.k = "string" THEN Alias_string(param.tableName)
  ELSE IF param.as # <<>> THEN Alias_string(param.as)
  ELSE IF param.tableName # <<>> THEN Alias_string(param.tableName)
  ELSE Alias_object

\* quoteTable, lines 297-299: alias = param.as || param.name || param
derivedAlias(param, alias) ==
  IF alias.k # "true" THEN alias
  ELSE IF param.k = "string" THEN Alias_string(param.tableName)
  ELSE IF param.as # <<>> THEN Alias_string(param.as)
  ELSE IF param.name # <<>> THEN Alias_string(param.name)
  ELSE Alias_object

\* quoteTable, lines 301-318: the table reference before the alias
tableReference(param) ==
  IF param.k = "object"
  THEN IF supportsSchemas
       THEN (IF param.schema # <<>> THEN quoteIdentifier(param.schema) \o DOT ELSE <<>>)
            \o quoteIdentifier(param.tableName)
       ELSE quoteIdentifier(
              (IF param.schema # <<>>
               THEN param.schema \o (IF param.delimiter # <<>> THEN param.delimiter ELSE DOT)
               ELSE <<>>)
              \o param.tableName)
  ELSE quoteIdentifier(param.tableName)

\* QueryGenerator.quoteTable(param, alias)
quoteTable(param, alias) ==
  LET alias_ == derivedAlias(param, alias)
      table == tableReference(param)
  IN IF alias_.k = "object" THEN Throw("TypeError")
     ELSE IF alias_.k = "string" /\ alias_.s # <<>>
     THEN Ok(table \o <<" ","A","S"," ">> \o quoteIdentifier(alias_.s))
     ELSE Ok(table)

\* quote, lines 229-235: what the SQL starts with
sqlPrefix(coll, i, par, conn) ==
  IF i > 0 THEN quoteIdentifier(join(tableNamesOf(coll, i), conn)) \o DOT
  ELSE IF Len(coll) > 0 /\ coll[1].k = "string" /\ par # "none"
  THEN quoteIdentifier(Model_name(par)) \o DOT
  ELSE <<>>

RECURSIVE quote(_, _, _)
RECURSIVE quoteItems(_, _, _, _, _)

\* quote, line 239: sql += this.quote(collectionItem, parent, connector)
appendQuoted(coll, i, sql, par, conn, q) ==
  IF ~q.res.ok THEN [res |-> q.res, coll |-> [coll EXCEPT ![i + 1] = q.coll]]
  ELSE quoteItems([coll EXCEPT ![i + 1] = q.coll], i + 1, sql \o q.res.sql, par, conn)

\* quote, lines 238-240: the elements from index i (0-based) on, appended to sql
quoteItems(coll, i, sql, par, conn) ==
  IF i >= Len(coll) THEN [res |-> Ok(sql), coll |-> coll]
  ELSE appendQuoted(coll, i, sql, par, conn, quote(coll[i + 1], par, conn))

\* quote, line 242: return sql, the array left as the recursive calls rewrote it
quoteBuilt(built) == [res |-> built.res, coll |-> E_array(built.coll), at |-> -1]

\* quote, lines 228-240: the prefix, then everything from i on
quoteFrom(coll, i, par, conn) ==
  quoteBuilt(quoteItems(coll, i, sqlPrefix(coll, i, par, conn), par, conn))

\* quote, lines 213-242: the array after the forEach (rw) is scanned and
\* rendered; the scan reads a property of every element it passes, so a null
\* or undefined element before the boundary throws
quoteRewritten(rw, par, conn) ==
  IF rw.err # "none"
  THEN [res |-> Throw(rw.err), coll |-> E_array(rw.coll), at |-> rw.at]
  ELSE IF \E j \in 1..(Len(rw.coll) - 1) :
            /\ rw.coll[j].k \in {"null", "undefined"}
            /\ \A h \in 1..(j - 1) : ~StopsScan(rw.coll[h])
  THEN [res |-> Throw("TypeError"), coll |-> E_array(rw.coll), at |-> -1]
  ELSE quoteFrom(rw.coll, scanFrom(rw.coll, 0), par, conn)

\* QueryGenerator.quote(collection, parent, connector): what it returns or
\* throws, the argument as the call leaves it, and the index of the forEach
\* iteration that threw (-1 when none did)
quote(target, par, conn) ==
  CASE target.k = "string" ->
         [res |-> Ok(quoteIdentifiers(target.s)), coll |-> target, at |-> -1]
    [] target.k = "array" ->
         quoteRewritten(rewriteFrom(target.items, 0, par), par,
                        IF conn = <<>> THEN DOT ELSE conn)
    [] target.k \in {"null", "undefined"} ->
         [res |-> Throw("TypeError"), coll |-> target, at |-> -1]
    [] target.k = "modelAttribute" ->
         [res |-> Ok(quoteTable(Table_name(Model_name(target.m)), Alias_undefined).sql \o DOT \o quoteIdentifier(target.s)),
          coll |-> target, at |-> -1]
    [] target.k = "literal" ->
         [res |-> Ok(handleSequelizeMethod(target)), coll |-> target, at |-> -1]
    [] target.k = "raw" /\ target.s # <<>> ->
         [res |-> Throw("RemovedFeatureError"), coll |-> target, at |-> -1]
    [] OTHER ->
         [res |-> Throw("UnknownStructureError"), coll |-> target, at |-> -1]


\* ------------------------------------------------------------------ inputs
\* the strings given to quoteIdentifiers
IdentifierInputs == {s_title, s_abc, s_json, <<"a",".","b">>, <<".","a">>, <<"a",".">>, <<>>}

\* the elements a Path is built from
PathElements ==
  { E_string(s_title), E_string(<<"d","e","s","c">>), E_string(s_posts), E_string(s_name),
    E_string(s_json),
    E_model("T"), E_modelAs("B", s_posts), E_modelAs("T", s_x),
    E_raw(s_x), E_literal(s_now) }

Paths == UNION { [1..n -> PathElements] : n \in 0..MaxPathLen }

\* the spellings of the direction tokens tried after a column
Lowered(s) == [i \in 1..Len(s) |-> IF s[i] \in DOMAIN LowerOf THEN LowerOf[s[i]] ELSE s[i]]
Capitalized(s) == [i \in 1..Len(s) |-> IF i = 1 THEN s[i] ELSE Lowered(s)[i]]
DirectionSpellings ==
  UNION { {validOrderOptions[i], Lowered(validOrderOptions[i]), Capitalized(validOrderOptions[i])}
          : i \in 1..Len(validOrderOptions) }
DirectionPaths ==
  { <<E_string(c), E_string(d)>> : c \in {s_title, s_name, s_json}, d \in DirectionSpellings }
  \cup { <<E_string(d)>> : d \in DirectionSpellings }

\* Paths that hold a Path
NestedPaths ==
  { << E_array(<<E_string(s_name)>>) >>,
    << E_array(<<E_string(s_name)>>), E_string(s_title) >>,
    << E_string(s_posts), E_array(<<E_string(s_name), E_string(s_title)>>) >>,
    << E_string(s_title), E_array(<<E_string(s_posts), E_string(s_json)>>) >>,
    << E_string(s_title), E_array(<<E_model("T"), E_string(s_title)>>) >>,
    << E_literal(s_now), E_array(<<E_string(s_title), E_string(<<"a","s","c">>)>>) >> }

\* Paths with a model attribute, and with a {model, as} pair whose alias names
\* no association
OtherPaths ==
  { << E_modelAttribute("B", s_title) >>,
    << E_modelAttribute("B", s_title), E_string(<<"d","e","s","c">>) >>,
    << E_string(s_posts), E_modelAttribute("B", s_title) >>,
    << E_raw(s_x), E_modelAttribute("B", s_title) >>,
    << E_modelAs("B", s_zz), E_string(s_title) >>,
    << E_modelAs("B", s_zz), E_modelAs("B", s_zz), E_string(s_title) >>,
    << E_string(s_posts), E_modelAs("B", s_zz), E_string(s_title) >>,
    << E_model("B"), E_string(s_title) >> }

\* the targets given to quote
QuoteTargets ==
  { E_array(p) : p \in Paths \cup DirectionPaths \cup NestedPaths \cup OtherPaths }
  \cup { E_string(s_title), E_string(s_abc), E_raw(s_x), E_raw(<<>>), E_object, E_model("B"),
         E_literal(s_now), E_modelAttribute("B", s_title),
         Association("A", "B", s_posts, "T") }

Parents == {"none", "A"}
Connectors == {<<>>, s_arrow}


\* longest array of segments handed to jsonPathExtractionQuery
MaxSegments == 3

Segments == {<<"a">>, <<"b">>, <<"0">>, <<"1","2">>, <<"0","a">>, <<"a","0">>}
JsonPaths ==
  { P_arr(p) : p \in UNION { [1..n -> Segments] : n \in 0..MaxSegments } }
  \cup { P_str(<<"a",".","0",".","b">>), P_str(<<"a">>), P_str(<<>>), P_undefined }
JsonColumns == { s_data, DQ \o s_data \o DQ, DQ \o <<"A">> \o DQ \o DOT \o DQ \o s_doc \o DQ }

TableParams ==
  { Table_name(s_posts), Table_name(s_abc) }
  \cup { Table_object(s_posts, sc, de, as, nm) :
           sc \in {<<>>, s_zz}, de \in {<<>>, <<"_">>}, as \in {<<>>, s_x}, nm \in {<<>>, s_nm} }
TableAliases == { Alias_undefined, Alias_true, Alias_string(s_title), Alias_string(<<>>) }

EscapeValues ==
  { V_null, V_undefined, V_literal(s_now), V_num(0), V_num(1), V_num(12), V_str(<<>>),
    V_str(s_title), V_str(<<"i","t","'","s">>), V_bool(FALSE), V_bool(TRUE),
    V_array(<<>>), V_array(<<V_num(1), V_num(0)>>), V_array(<<V_num(1), V_str(s_x)>>),
    V_array(<<V_str(s_x), V_num(1)>>) }
FieldTypes ==
  { NoFieldType,
    FieldType(FALSE, {}, FALSE, FALSE),
    FieldType(TRUE, {"number"}, FALSE, FALSE),
    FieldType(TRUE, {"number", "string", "boolean", "array"}, TRUE, TRUE),
    FieldType(TRUE, {"string"}, TRUE, FALSE),
    FieldType(FALSE, {}, TRUE, FALSE) }

\* ---------------------------------------------------------------- actions
\* The generator keeps nothing from one call to the next (its methods read only
\* the dialect and the options), so every call is explored from the state the
\* constructor leaves; only a repeated quote depends on the call before it.
\* new QueryGenerator(options): the dialect and the options are fixed here
Init ==
  /\ dialect \in Dialects
  /\ quoteIdentifiersOpt \in BOOLEAN
  /\ typeValidation = FALSE
  /\ op = "new"
  /\ original = E_undefined
  /\ collection = E_undefined
  /\ parent = "none"
  /\ connector = <<>>
  /\ extra = <<>>
  /\ result = NoResult
  /\ prevCollection = E_undefined
  /\ prevResult = NoResult
  /\ validated = <<>>
  /\ failedAt = -1

Config == <<dialect, quoteIdentifiersOpt>>

\* a caller runs quote(target, parent, connector)
CallQuote ==
  /\ op = "new"
  /\ \E t \in QuoteTargets, p \in Parents, c \in Connectors :
    \E q \in {quote(t, p, c)} :
    /\ op' = "quote"
    /\ original' = t
    /\ collection' = q.coll
    /\ parent' = p
    /\ connector' = c
    /\ result' = q.res
    /\ failedAt' = q.at
    /\ prevCollection' = E_undefined
    /\ prevResult' = NoResult
    /\ extra' = <<>>
    /\ validated' = <<>>
    /\ UNCHANGED <<Config, typeValidation>>

\* the caller runs quote again on the array the first call left behind
ReQuote ==
  /\ op = "quote"
  /\ original.k = "array"
  /\ result.ok
  /\ \E q \in {quote(collection, parent, connector)} :
     /\ op' = "requote"
     /\ prevCollection' = collection
     /\ prevResult' = result
     /\ collection' = q.coll
     /\ result' = q.res
     /\ failedAt' = q.at
  /\ UNCHANGED <<Config, typeValidation, original, parent, connector, extra, validated>>

\* a caller runs quoteIdentifiers(identifiers)
CallQuoteIdentifiers ==
  /\ op = "new"
  /\ \E s \in IdentifierInputs :
    /\ op' = "quoteIdentifiers"
    /\ original' = E_string(s)
    /\ collection' = E_string(s)
    /\ result' = Ok(quoteIdentifiers(s))
    /\ parent' = "none"
    /\ connector' = <<>>
    /\ extra' = <<>>
    /\ prevCollection' = E_undefined
    /\ prevResult' = NoResult
    /\ validated' = <<>>
    /\ UNCHANGED <<Config, typeValidation, failedAt>>

\* a caller runs quoteTable(param, alias)
CallQuoteTable ==
  /\ op = "new"
  /\ \E param \in TableParams, alias \in TableAliases :
    /\ op' = "quoteTable"
    /\ extra' = [param |-> param, alias |-> alias]
    /\ result' = quoteTable(param, alias)
    /\ original' = E_undefined
    /\ collection' = E_undefined
    /\ parent' = "none"
    /\ connector' = <<>>
    /\ prevCollection' = E_undefined
    /\ prevResult' = NoResult
    /\ validated' = <<>>
    /\ UNCHANGED <<Config, typeValidation, failedAt>>

\* a caller runs jsonPathExtractionQuery(column, path)
CallJsonPathExtractionQuery ==
  /\ op = "new"
  /\ \E column \in JsonColumns, path \in JsonPaths :
    /\ op' = "jsonPathExtractionQuery"
    /\ extra' = [column |-> column, path |-> path]
    /\ result' = jsonPathExtractionQuery(column, path)
    /\ original' = E_undefined
    /\ collection' = E_undefined
    /\ parent' = "none"
    /\ connector' = <<>>
    /\ prevCollection' = E_undefined
    /\ prevResult' = NoResult
    /\ validated' = <<>>
    /\ UNCHANGED <<Config, typeValidation, failedAt>>

\* the application switches type validation on or off (queryGenerator.typeValidation = b)
SetTypeValidation ==
  /\ op = "new"
  /\ \E b \in BOOLEAN :
    /\ typeValidation' = b
    /\ UNCHANGED <<Config, op, original, collection, parent, connector, extra, result,
                   prevCollection, prevResult, validated, failedAt>>

\* a caller runs escape(value, field, options)
CallEscape ==
  /\ op = "new"
  /\ \E value \in EscapeValues, type \in FieldTypes, isList \in BOOLEAN :
    LET e == escape(value, type, isList) IN
    /\ op' = "escape"
    /\ extra' = [value |-> value, type |-> type, isList |-> isList]
    /\ result' = e.res
    /\ validated' = e.validated
    /\ original' = E_undefined
    /\ collection' = E_undefined
    /\ parent' = "none"
    /\ connector' = <<>>
    /\ prevCollection' = E_undefined
    /\ prevResult' = NoResult
    /\ UNCHANGED <<Config, typeValidation, failedAt>>

Next ==
  \/ CallQuote
  \/ ReQuote
  \/ CallQuoteIdentifiers
  \/ CallQuoteTable
  \/ CallJsonPathExtractionQuery

Spec == Init /\ [][Next]_vars

NextEscape ==
  \/ SetTypeValidation
  \/ CallEscape

SpecEscape == Init /\ [][NextEscape]_vars


\* ------------------------------------------------------------------ claims
\* the identifier quoting the claims are stated with
Quoted(x) == IF quoteIdentifiersOpt THEN QuoteOpen(dialect) \o x \o QuoteClose(dialect) ELSE x

\* the position of the last dot of s (0 when it has none)
LastDot(s) ==
  IF \E i \in 1..Len(s) : s[i] = "."
  THEN CHOOSE i \in 1..Len(s) : s[i] = "." /\ \A j \in (i + 1)..Len(s) : s[j] # "."
  ELSE 0

ClaimedSegments(path) ==
  CASE path.k = "array" -> path.segs
    [] path = P_str(<<"a",".","0",".","b">>) -> << <<"a">>, <<"0">>, <<"b">> >>
    [] path = P_str(<<"a">>) -> << <<"a">> >>
    [] OTHER -> <<>>

PurelyNumeric(seg) == seg # <<>> /\ \A i \in 1..Len(seg) : seg[i] \in Digits

\* one segment as the claims render it for a dialect
ClaimedSegment(seg, d) ==
  CASE d = "mysql"  -> DOT \o DQ \o seg \o DQ
    [] d = "sqlite" -> IF PurelyNumeric(seg) THEN <<"[">> \o seg \o <<"]">> ELSE DOT \o seg
    [] OTHER        -> <<",">> \o seg

\* the segments rendered for a dialect, one after the other
RECURSIVE ConcatSegments(_, _)
ConcatSegments(segs, d) ==
  IF segs = <<>> THEN <<>> ELSE ClaimedSegment(segs[1], d) \o ConcatSegments(Tail(segs), d)

\* C6: jsonPathExtractionQuery gives, with col the column quoted unless it is
\* quoted already: for mysql (col->>'$."s1"."s2"'), for sqlite
\* json_extract(col, '$.s1[n]') with every purely numeric segment in brackets,
\* for postgres (col#>>'{s1,s2}'), and for any other dialect the
\* unsupported-dialect error.
C6_JsonPathExtraction ==
  op = "jsonPathExtractionQuery" =>
    LET segs == ClaimedSegments(extra.path)
        c == extra.column
        col == IF Len(c) >= 2 /\ c[1] = "\"" /\ c[Len(c)] = "\"" THEN c ELSE Quoted(c)
    IN CASE dialect = "mysql" ->
              result = Ok(<<"(">> \o col \o <<"-",">",">","'","$">>
                          \o ConcatSegments(segs, "mysql") \o <<"'",")">>)
         [] dialect = "sqlite" ->
              result = Ok(<<"j","s","o","n","_","e","x","t","r","a","c","t","(">> \o col
                          \o <<","," ","'","$">> \o ConcatSegments(segs, "sqlite")
                          \o <<"'",")">>)
         [] dialect = "postgres" ->
              result = Ok(<<"(">> \o col \o <<"#",">",">","'","{">>
                          \o (IF segs = <<>> THEN <<>>
                              ELSE Tail(ConcatSegments(segs, "postgres")))
                          \o <<"}","'",")">>)
         [] OTHER -> result = Throw("UnsupportedDialect")

\* C6 witness: under sqlite the path 0.12.b of column data, two numeric
\* segments next to each other, gives json_extract(`data`, '$[0][12].b')
C6_Witness ==
  /\ op = "jsonPathExtractionQuery"
  /\ dialect = "sqlite"
  /\ quoteIdentifiersOpt
  /\ extra.column = s_data
  /\ extra.path = P_arr(<< <<"0">>, <<"1","2">>, <<"b">> >>)
  /\ result.sql = <<"j","s","o","n","_","e","x","t","r","a","c","t","(">> \o BT \o s_data \o BT
                  \o <<","," ","'","$","[","0","]","[","1","2","]",".","b","'",")">>

\* the table reference the claims give for a parameter, before the alias
ClaimedTable(param) ==
  IF param.k = "object" /\ param.schema # <<>>
  THEN IF supportsSchemas
       THEN Quoted(param.schema) \o DOT \o Quoted(param.tableName)
       ELSE Quoted(param.schema \o (IF param.delimiter = <<>> THEN DOT ELSE param.delimiter)
                   \o param.tableName)
  ELSE Quoted(param.tableName)

\* the text quoteTable gives for an alias that is a string
WithAlias(table, aliasText) ==
  IF aliasText = <<>> THEN Ok(table)
  ELSE Ok(table \o <<" ","A","S"," ">> \o Quoted(aliasText))

\* C8 as first stated: with alias === true the alias is the descriptor's alias
\* if set, else the descriptor's tableName, else the bare name.  (A descriptor
\* with neither as nor name hands quoteIdentifier an object, not a string;
\* what the helper makes of that is not compared here.)
C8_AliasFromTableName ==
  op = "quoteTable" =>
    LET param == extra.param
        alias == extra.alias
    IN CASE alias.k = "string" -> result = WithAlias(ClaimedTable(param), alias.s)
         [] alias.k = "true" /\ param.k = "object" /\ param.as = <<>> /\ param.name = <<>> ->
              TRUE
         [] alias.k = "true" ->
              result = WithAlias(ClaimedTable(param),
                                 IF param.k = "object" /\ param.as # <<>> THEN param.as
                                 ELSE param.tableName)
         [] OTHER -> result = Ok(ClaimedTable(param))

\* C8, amended: quoteTable gives quote(schema).quote(tableName) for a descriptor
\* with a schema under a dialect with schemas, quote(schema delimiter tableName)
\* under a dialect without, quote(tableName) otherwise, followed by AS
\* quote(alias) when an alias is present; with alias === true the alias is the
\* descriptor's as if set, else the descriptor's name (not its tableName) if
\* set, and for a bare name the name itself.
C8_AliasFromName ==
  op = "quoteTable" =>
    LET param == extra.param
        alias == extra.alias
    IN CASE alias.k = "string" -> result = WithAlias(ClaimedTable(param), alias.s)
         [] alias.k = "true" /\ param.k = "string" ->
              result = WithAlias(ClaimedTable(param), param.tableName)
         [] alias.k = "true" /\ param.k = "object" /\ param.as # <<>> ->
              result = WithAlias(ClaimedTable(param), param.as)
         [] alias.k = "true" /\ param.k = "object" /\ param.name # <<>> ->
              result = WithAlias(ClaimedTable(param), param.name)
         [] alias.k = "true" -> TRUE
         [] OTHER -> result = Ok(ClaimedTable(param))

\* C8 witness: alias === true on a descriptor with a schema and a name but no
\* as, under a dialect without schemas: "zz_posts" AS "nm" in that dialect's quotes
C8_Witness ==
  /\ op = "quoteTable"
  /\ dialect = "mysql"
  /\ quoteIdentifiersOpt
  /\ extra.alias = Alias_true
  /\ extra.param = Table_object(s_posts, s_zz, <<"_">>, <<>>, s_nm)
  /\ result.sql = BT \o s_zz \o <<"_">> \o s_posts \o BT \o <<" ","A","S"," ">> \o BT \o s_nm \o BT


\* ------------------------------------------------------- claims about quote
\* the first call of quote on a Path
QuotedPath == op = "quote" /\ original.k = "array"

\* the forEach reached element i (1-based) of the Path
Processed(i) == failedAt = -1 \/ i - 1 <= failedAt

\* the element before element i as the forEach left it
PreviousOf(i) == IF i = 1 THEN E_undefined ELSE collection.items[i - 1]

\* currentModel when element i is met: the parent at the start of the Path,
\* the target of the association just before it otherwise
CurrentModelAt(i) ==
  IF i = 1 THEN parent
  ELSE IF collection.items[i - 1].k = "association" THEN collection.items[i - 1].m
  ELSE "none"

\* s is one of the 8 direction tokens in some letter case
IsDirection(s) == \E i \in 1..Len(validOrderOptions) : Lowered(s) = Lowered(validOrderOptions[i])
CanonicalDirection(s) ==
  validOrderOptions[CHOOSE i \in 1..Len(validOrderOptions) :
                      Lowered(s) = Lowered(validOrderOptions[i])]

\* a target that is a raw object with text, or a Path holding one
ContainsRaw(t) ==
  \/ t.k = "raw" /\ t.s # <<>>
  \/ t.k = "array" /\ \E i \in 1..Len(t.items) : t.items[i].k = "raw" /\ t.items[i].s # <<>>

\* C1: quote never returns SQL for a target that is a raw object {raw: text}
\* or a Path that holds one at any position.
C1_RawObjectNeverYieldsSql ==
  (op = "quote" /\ ContainsRaw(original)) => ~result.ok

\* the edge the claims resolve a model or {model, as} element to (E_null when
\* none); strict says whether rule (a) requires that no alias was given
ClaimedEdge(item, prev, cur, strict) ==
  LET edges == associations(cur) IN
  IF prev.k = "association" /\ prev.t = item.m /\ (~strict \/ item.a = <<>>)
  THEN Association(cur, item.m, <<item.m>>, "none")
  ELSE IF item.a # <<>> /\ \E x \in edges : x.m = item.m /\ x.a = item.a
  THEN CHOOSE x \in edges : x.m = item.m /\ x.a = item.a
  ELSE IF \E x \in edges : x.m = item.m /\ x.a = <<item.m>>
  THEN CHOOSE x \in edges : x.m = item.m /\ x.a = <<item.m>>
  ELSE E_null

\* every model or {model, as} element met under a known model became the edge
\* the claims name, or made the call fail with the resolution error
ModelsResolveAsClaimed(strict) ==
  QuotedPath =>
    \A i \in 1..Len(original.items) :
      LET item == original.items[i]
          cur == CurrentModelAt(i)
      IN (item.k \in {"model", "modelAs"} /\ Processed(i) /\ cur \in Models) =>
           LET e == ClaimedEdge(item, PreviousOf(i), cur, strict) IN
           IF e.k = "null"
           THEN failedAt = i - 1 /\ result = Throw("ResolutionError")
           ELSE failedAt # i - 1 /\ collection.items[i] = e

\* C2 as first stated: rule (a), the direct edge through the previous
\* association's through model, comes first whether or not an alias is given.
C2_ThroughModelFirst == ModelsResolveAsClaimed(FALSE)

\* C2, amended: a model or {model, as} element met under a known model becomes
\* (a) when no alias is given and the previous element is an association whose
\* through model is this model, a new edge from the current model aliased by
\* the model's name; (b) otherwise the current model's edge under the given
\* alias; (c) otherwise its edge under the model's own name; if none, the call
\* fails with the resolution error; the next element is resolved against the
\* edge's target.
C2_AliasBeforeThroughModel == ModelsResolveAsClaimed(TRUE)

\* C2 witness: {model: T, as: "x"} after the association posts (which goes
\* through T) became B's edge aliased x, not a new edge, and SQL was returned
C2_Witness ==
  /\ QuotedPath
  /\ result.ok
  /\ Len(original.items) = 3
  /\ original.items[2] = E_modelAs("T", s_x)
  /\ collection.items[1] = Association("A", "B", s_posts, "T")
  /\ collection.items[2] = Association("B", "T", s_x, "none")
  /\ original.items[3] = E_string(s_json)
  /\ collection.items[3] = E_string(s_json)

\* no rule of the claim matches the string s met at element i under model cur
NoRuleMatches(s, i, cur) ==
  /\ ~(i > 1 /\ IsDirection(s))
  /\ ~(\E x \in associations(cur) : x.a = s)
  /\ ~(\E x \in rawAttributes(cur) : x.name = s /\ x.field # s)
  /\ ~(/\ indexOf(s, ".") # 0
       /\ \E x \in rawAttributes(cur) : x.name = SubSeq(s, 1, indexOf(s, ".") - 1) /\ x.json)

\* C3: a string element met under a known model that matches none of the
\* rules (a)-(d) is left unchanged and the call does not fail on it.
C3_UnmatchedStringLeftAlone ==
  QuotedPath =>
    \A i \in 1..Len(original.items) :
      LET item == original.items[i]
          cur == CurrentModelAt(i)
      IN (/\ item.k = "string" /\ Processed(i) /\ cur \in Models
          /\ NoRuleMatches(item.s, i, cur)) =>
           failedAt # i - 1 /\ collection.items[i] = item

\* the boundary of the rewritten Path: its first string, literal or model
\* attribute (0 when it holds none)
Boundary(items) ==
  IF \E i \in 1..Len(items) : StopsScan(items[i])
  THEN CHOOSE i \in 1..Len(items) : StopsScan(items[i]) /\ \A j \in 1..(i - 1) : ~StopsScan(items[j])
  ELSE 0

\* C4: the SQL returned for a Path with a boundary is a prefix followed by the
\* normalizations of the elements from the boundary on; every element before
\* the boundary is an association edge; the prefix is the edges' aliases
\* joined by the connector and quoted as one identifier, then a dot; with no
\* edge, a first element that is a string and a parent, it is the parent's
\* name quoted, then a dot; otherwise it is empty.
C4_PrefixOfAssociationEdges ==
  (QuotedPath /\ result.ok /\ Boundary(collection.items) # 0) =>
    LET items == collection.items
        b == Boundary(items)
        conn == IF connector = <<>> THEN DOT ELSE connector
        prefix == IF b > 1
                  THEN Quoted(join([j \in 1..(b - 1) |-> items[j].a], conn)) \o DOT
                  ELSE IF items[1].k = "string" /\ parent # "none"
                  THEN Quoted(<<parent>>) \o DOT
                  ELSE <<>>
    IN /\ \A j \in 1..(b - 1) : items[j].k = "association"
       /\ result.sql = prefix \o quoteItems(items, b - 1, <<>>, parent, conn).res.sql


\* the Path is [column, token]: two strings, the second a direction token in
\* some letter case, the first not the name of an association of the parent
ColumnThenDirection ==
  /\ QuotedPath
  /\ Len(original.items) = 2
  /\ original.items[1].k = "string"
  /\ original.items[2].k = "string"
  /\ IsDirection(original.items[2].s)
  /\ ~(parent \in Models /\ \E x \in associations(parent) : x.a = original.items[1].s)

\* C5: for a Path [column, token] the call returns what it returns for
\* [column] alone, one space, and the token in its canonical upper-case text
\* (without a parent and for a column without a dot: the column quoted, a
\* space, the token); a Path that is a direction token alone is quoted as an
\* identifier, as typed.
C5_DirectionPassthrough ==
  /\ ColumnThenDirection =>
       LET column == original.items[1]
           token == CanonicalDirection(original.items[2].s)
           alone == quote(E_array(<<column>>), parent, connector).res
       IN /\ IF alone.ok THEN result = Ok(alone.sql \o <<" ">> \o token) ELSE ~result.ok
          /\ (parent = "none" /\ indexOf(column.s, ".") = 0) =>
               result = Ok(Quoted(column.s) \o <<" ">> \o token)
  /\ (/\ QuotedPath /\ Len(original.items) = 1 /\ original.items[1].k = "string"
      /\ IsDirection(original.items[1].s)) =>
       result = Ok((IF parent = "none" THEN <<>> ELSE Quoted(<<parent>>) \o DOT)
                   \o Quoted(original.items[1].s))

\* C5 witness: ["title", "desc"] under the double-quote dialect gives "title" DESC
C5_Witness ==
  /\ ColumnThenDirection
  /\ dialect = "postgres"
  /\ quoteIdentifiersOpt
  /\ parent = "none"
  /\ original.items = <<E_string(s_title), E_string(<<"d","e","s","c">>)>>
  /\ result.sql = <<"\"","t","i","t","l","e","\""," ","D","E","S","C">>

\* some string of the Path (or of a Path inside it) names, on the model it is
\* resolved against, an attribute whose physical column has another name
RECURSIVE HasRenamedAttribute(_, _)
HasRenamedAttribute(orig, rewritten) ==
  \E i \in 1..Len(orig) :
    LET cur == IF i = 1 THEN parent
               ELSE IF rewritten[i - 1].k = "association" THEN rewritten[i - 1].m
               ELSE "none"
    IN \/ /\ orig[i].k = "string"
          /\ cur \in Models
          /\ \E x \in rawAttributes(cur) : x.name = orig[i].s /\ x.field # x.name
       \/ /\ orig[i].k = "array"
          /\ HasRenamedAttribute(orig[i].items, rewritten[i].items)

RECURSIVE UpToFirstRejected(_, _)
UpToFirstRejected(type, xs) ==
  IF xs = <<>> THEN <<>>
  ELSE IF xs[1].k \notin type.accepts THEN <<xs[1]>>
  ELSE <<xs[1]>> \o UpToFirstRejected(type, Tail(xs))

\* C7: escape invokes validate on every value that is neither null/absent nor
\* a literal when the field type defines validate and type validation is on
\* (on each element when options.isList and the value is a sequence), and a
\* rejected value makes the call fail with the validation error.
C7_EveryValueValidated ==
  (/\ op = "escape"
   /\ extra.value.k \notin {"null", "undefined", "literal"}
   /\ extra.type.present /\ extra.type.hasValidate
   /\ typeValidation) =>
     LET expected == IF extra.isList /\ extra.value.k = "array"
                     THEN UpToFirstRejected(extra.type, extra.value.items)
                     ELSE <<extra.value>>
     IN /\ validated = expected
        /\ (\E i \in 1..Len(expected) : expected[i].k \notin extra.type.accepts) =>
             result = Throw("ValidationError")

====
